------------------------------ MODULE Spec2Model ------------------------------
(***************************************************************************)
(* fix-html.py: the post-build patcher of dist/index.html.                 *)
(*                                                                         *)
(* The script reads the file in text mode, applies two re.sub rules (the   *)
(* page title, the favicon link), writes the text back to the same path    *)
(* and prints a confirmation.  Text is modelled as a sequence of           *)
(* one-character strings, the file as the sequence of its bytes (ASCII     *)
(* only, so that every ASCII-compatible default encoding maps one byte to  *)
(* one character), and a run as a process that takes one step of the       *)
(* script at a time.                                                       *)
(***************************************************************************)
EXTENDS Integers, Sequences, FiniteSets, TLC

\* The most fragments an input document is assembled from.
MaxChunks == 2

\* The most bytes a failing write leaves behind in the file.
MaxCut == 1

\* The most fragments a document of the concurrent runs is assembled from.
MaxConcChunks == 1

LF == "\n"
CR == "\r"

-----------------------------------------------------------------------------
(* The literals of the two rules, and the message.                          *)

\* r'<title data-rh="true"></title>'
TitlePattern ==
    << "<", "t", "i", "t", "l", "e", " ", "d", "a", "t", "a", "-", "r", "h",
       "=", "\"", "t", "r", "u", "e", "\"", ">", "<", "/", "t", "i", "t",
       "l", "e", ">" >>

\* '<title data-rh="true">Die Stats</title>'
TitleReplacement ==
    << "<", "t", "i", "t", "l", "e", " ", "d", "a", "t", "a", "-", "r", "h",
       "=", "\"", "t", "r", "u", "e", "\"", ">", "D", "i", "e", " ", "S",
       "t", "a", "t", "s", "<", "/", "t", "i", "t", "l", "e", ">" >>

\* r'<link rel="icon" href="/favicon.ico" />'
FaviconPattern ==
    << "<", "l", "i", "n", "k", " ", "r", "e", "l", "=", "\"", "i", "c", "o",
       "n", "\"", " ", "h", "r", "e", "f", "=", "\"", "/", "f", "a", "v",
       "i", "c", "o", "n", ".", "i", "c", "o", "\"", " ", "/", ">" >>

\* '<link rel="icon" type="image/png" href="/favicon.png" />'
FaviconReplacement ==
    << "<", "l", "i", "n", "k", " ", "r", "e", "l", "=", "\"", "i", "c", "o",
       "n", "\"", " ", "t", "y", "p", "e", "=", "\"", "i", "m", "a", "g",
       "e", "/", "p", "n", "g", "\"", " ", "h", "r", "e", "f", "=", "\"",
       "/", "f", "a", "v", "i", "c", "o", "n", ".", "p", "n", "g", "\"", " ",
       "/", ">" >>

\* "HTML updated successfully!"
SuccessMessage ==
    << "H", "T", "M", "L", " ", "u", "p", "d", "a", "t", "e", "d", " ", "s",
       "u", "c", "c", "e", "s", "s", "f", "u", "l", "l", "y", "!" >>

-----------------------------------------------------------------------------
(* re.sub(pattern, repl, string) for the patterns of the script.  Of the    *)
(* characters the two patterns hold only "." is a regular-expression        *)
(* metacharacter: without re.DOTALL it matches any character but a          *)
(* newline.  Every other character matches itself.                          *)

AtomMatches(atom, c) ==
    IF atom = "." THEN c # LF ELSE atom = c

\* Whether the pattern matches the text at position i (1-based).
MatchesAt(pat, s, i) ==
    /\ i + Len(pat) - 1 <= Len(s)
    /\ \A j \in 1..Len(pat) : AtomMatches(pat[j], s[i + j - 1])

\* The positions from i on where the pattern matches.
MatchesFrom(pat, s, i) == { j \in i..Len(s) : MatchesAt(pat, s, j) }

\* The leftmost-first, non-overlapping scan of re.sub from position i on:
\* the text up to the next match is copied, the match is replaced and the
\* scan goes on behind it.
RECURSIVE SubFrom(_, _, _, _)
SubFrom(pat, repl, s, i) ==
    LET found == MatchesFrom(pat, s, i)
    IN  IF found = { } THEN SubSeq(s, i, Len(s))
        ELSE LET m == CHOOSE j \in found : \A k \in found : j <= k
             IN  SubSeq(s, i, m - 1) \o repl
                   \o SubFrom(pat, repl, s, m + Len(pat))

\* A substitution of the first match only (count=1).
ReSubFirst(pat, repl, s) ==
    LET found == MatchesFrom(pat, s, 1)
    IN  IF found = { } THEN s
        ELSE LET m == CHOOSE j \in found : \A k \in found : j <= k
             IN  SubSeq(s, 1, m - 1) \o repl
                   \o SubSeq(s, m + Len(pat), Len(s))

ReSub(pat, repl, s) == SubFrom(pat, repl, s, 1)

\* A title rule whose replacement also brings the old favicon link.
UpdateTitleAndIcon(s) ==
    ReSub(TitlePattern, TitleReplacement \o FaviconPattern, s)

\* content = re.sub(r'<title data-rh="true"></title>', ..., content)
UpdateTitle(s) == ReSub(TitlePattern, TitleReplacement, s)

\* content = re.sub(r'<link rel="icon" href="/favicon.ico" />', ..., content)
UpdateFavicon(s) == ReSub(FaviconPattern, FaviconReplacement, s)

-----------------------------------------------------------------------------
(* Text-mode file I/O.  open(path, 'r') and open(path, 'w') use the         *)
(* default newline=None: reading translates "\r\n" and then a lone "\r"     *)
(* to "\n", writing translates "\n" to os.linesep.  Both are literal        *)
(* replacements of every occurrence, left to right.                         *)

LiteralAt(old, s, i) ==
    /\ i + Len(old) - 1 <= Len(s)
    /\ \A j \in 1..Len(old) : old[j] = s[i + j - 1]

RECURSIVE ReplaceFrom(_, _, _, _)
ReplaceFrom(old, new, s, i) ==
    LET found == { j \in i..Len(s) : LiteralAt(old, s, j) }
    IN  IF found = { } THEN SubSeq(s, i, Len(s))
        ELSE LET m == CHOOSE j \in found : \A k \in found : j <= k
             IN  SubSeq(s, i, m - 1) \o new
                   \o ReplaceFrom(old, new, s, m + Len(old))

StrReplace(s, old, new) == ReplaceFrom(old, new, s, 1)

\* A read that does not translate line ends (newline='').
DecodeRaw(bytes) == bytes

\* f.read() of a file opened with open(path, 'r')
Decode(bytes) ==
    StrReplace(StrReplace(bytes, << CR, LF >>, << LF >>), << CR >>, << LF >>)

\* f.write(content) to a file opened with open(path, 'w'); sep is os.linesep
Encode(text, sep) ==
    IF sep = << LF >> THEN text ELSE StrReplace(text, << LF >>, sep)

\* os.linesep: "\n" on POSIX, "\r\n" on Windows
LineSeps == { << LF >>, << CR, LF >> }

\* The file content one successful run leaves, given the content it read.
Patch(bytes, sep) == Encode(UpdateFavicon(UpdateTitle(Decode(bytes))), sep)

\* A write in append mode: the bytes go behind what the file holds.
AppendTo(old, data) == old \o data

\* What a write of data over an open file holding old leaves: the bytes are
\* written from offset 0 and whatever lay beyond them stays.
Overlay(old, data) ==
    IF Len(data) >= Len(old) THEN data
    ELSE data \o SubSeq(old, Len(data) + 1, Len(old))

IsPrefix(a, b) == Len(a) <= Len(b) /\ SubSeq(b, 1, Len(a)) = a

Min(a, b) == IF a <= b THEN a ELSE b

-----------------------------------------------------------------------------
(* The input documents: every concatenation of at most MaxChunks fragments, *)
(* and a few more.  The fragments are the texts the rules are about, their  *)
(* halves (so that occurrences also arise across fragment borders), a near  *)
(* miss of the favicon link, and line ends.                                 *)

TitleOpen == SubSeq(TitlePattern, 1, 22)
TitleClose == SubSeq(TitlePattern, 23, 30)
FaviconHead == SubSeq(FaviconPattern, 1, 31)
FaviconTail == SubSeq(FaviconPattern, 33, 39)

\* The favicon link with character c where the literal has its dot.
FaviconWith(c) == FaviconHead \o << c >> \o FaviconTail

FaviconLiteral == FaviconWith(".")

HtmlHead ==
    << "<", "h", "t", "m", "l", ">", "<", "h", "e", "a", "d", ">" >>

HtmlTail ==
    << "<", "/", "h", "e", "a", "d", ">", "<", "/", "h", "t", "m", "l", ">" >>

ScenarioInput == HtmlHead \o TitlePattern \o FaviconLiteral \o HtmlTail

ScenarioOutput == HtmlHead \o TitleReplacement \o FaviconReplacement \o HtmlTail

Fragments ==
    { TitlePattern, TitleOpen, TitleClose,
      FaviconLiteral, FaviconWith("X"), FaviconHead, FaviconTail,
      << CR >>, << LF >> }

RECURSIVE DocsOf(_)
DocsOf(n) ==
    IF n = 0 THEN { << >> }
    ELSE LET shorter == DocsOf(n - 1)
         IN  shorter \cup { d \o f : d \in shorter, f \in Fragments }

\* Documents beside the assembled ones: the scenario, and the favicon link
\* with a line end where the literal has its dot.
ExtraDocs == { ScenarioInput, FaviconWith(LF), FaviconWith(CR) }

Docs == DocsOf(MaxChunks) \cup ExtraDocs

\* The documents of the concurrent runs.
ConcFragments == { TitlePattern, FaviconLiteral, << CR >> }

RECURSIVE ConcDocsOf(_)
ConcDocsOf(n) ==
    IF n = 0 THEN { << >> }
    ELSE LET shorter == ConcDocsOf(n - 1)
         IN  shorter \cup { d \o f : d \in shorter, f \in ConcFragments }

ConcDocs == ConcDocsOf(MaxConcChunks)

-----------------------------------------------------------------------------
(* The state.                                                               *)

VARIABLES
    exists,     \* whether dist/index.html exists
    file,       \* its bytes (empty when it does not exist)
    linesep,    \* os.linesep of the platform
    pc,         \* pc[p]: the statement run p executes next
    content,    \* content[p]: the variable content of run p
    rh,         \* rh[p]: the handle of open(..., 'r'): "none", "open", "closed"
    wh,         \* wh[p]: the handle of open(..., 'w')
    wbuf,       \* wbuf[p]: bytes f.write has buffered and not yet written
    stdout,     \* stdout[p]: the lines run p has printed
    before,     \* before[p]: the file as it was when run p began
    rawRead,    \* rawRead[p]: the bytes run p read
    trace,      \* trace[p]: the steps run p has taken, in order
    serial,     \* whether the runs are launched one after the other
    original    \* the file before any run

vars == << exists, file, linesep, pc, content, rh, wh, wbuf, stdout,
           before, rawRead, trace, serial, original >>

Procs == { 1, 2 }

\* The steps of a successful run, in the order of the script.
StepOrder ==
    << "open_r", "read", "close_r", "rule1", "rule2",
       "open_w", "write", "close_w", "print" >>

Terminated(p) == pc[p] \in { "done", "failed" }

\* The process's exit status: 0 at the end of the script, 1 after an
\* uncaught exception.
ExitCode(p) == IF pc[p] = "failed" THEN 1 ELSE 0

InitRuns ==
    /\ linesep \in LineSeps
    /\ pc = [p \in Procs |-> "open_r"]
    /\ content = [p \in Procs |-> << >>]
    /\ rh = [p \in Procs |-> "none"]
    /\ wh = [p \in Procs |-> "none"]
    /\ wbuf = [p \in Procs |-> << >>]
    /\ stdout = [p \in Procs |-> << >>]
    /\ before = [p \in Procs |-> [exists |-> FALSE, data |-> << >>]]
    /\ rawRead = [p \in Procs |-> << >>]
    /\ trace = [p \in Procs |-> << >>]

Init ==
    /\ exists \in BOOLEAN
    /\ file \in (IF exists THEN Docs ELSE { << >> })
    /\ serial = TRUE
    /\ original = file
    /\ InitRuns

InitConc ==
    /\ exists = TRUE
    /\ file \in ConcDocs
    /\ serial = FALSE
    /\ original = file
    /\ InitRuns

-----------------------------------------------------------------------------
(* The steps of a run.                                                      *)

\* Runs launched one after the other: a run begins when the runs before it
\* have ended.  Runs launched at once begin at any time.
MayBegin(p) == serial => \A q \in Procs : q < p => Terminated(q)

\* An uncaught exception at step: the with statement (if any) has closed its
\* handle, the traceback is printed and the process exits with status 1.
Raise(p, step) ==
    /\ pc' = [pc EXCEPT ![p] = "failed"]
    /\ trace' = [trace EXCEPT ![p] = Append(@, step \o "!")]

Advance(p, step, next) ==
    /\ pc' = [pc EXCEPT ![p] = next]
    /\ trace' = [trace EXCEPT ![p] = Append(@, step)]

\* with open('dist/index.html', 'r') as f:
OpenRead(p) ==
    /\ pc[p] = "open_r"
    /\ MayBegin(p)
    /\ exists
    /\ rh' = [rh EXCEPT ![p] = "open"]
    /\ before' = [before EXCEPT ![p] = [exists |-> exists, data |-> file]]
    /\ Advance(p, "open_r", "read")
    /\ UNCHANGED << serial, original, exists, file, linesep, content, wh,
                    wbuf, stdout, rawRead >>

\* open(..., 'r') raises: the file is missing (FileNotFoundError) or cannot
\* be opened (PermissionError, another OSError).
OpenReadFail(p) ==
    /\ pc[p] = "open_r"
    /\ MayBegin(p)
    /\ before' = [before EXCEPT ![p] = [exists |-> exists, data |-> file]]
    /\ Raise(p, "open_r")
    /\ UNCHANGED << serial, original, exists, file, linesep, content, rh,
                    wh, wbuf, stdout, rawRead >>

\* content = f.read()
Read(p) ==
    /\ pc[p] = "read"
    /\ rawRead' = [rawRead EXCEPT ![p] = file]
    /\ content' = [content EXCEPT ![p] = Decode(file)]
    /\ Advance(p, "read", "close_r")
    /\ UNCHANGED << serial, original, exists, file, linesep, rh, wh, wbuf,
                    stdout, before >>

\* A read failure that is caught and ignored: the run goes on with the
\* empty content.
ReadFailIgnored(p) ==
    /\ pc[p] = "read"
    /\ rh' = [rh EXCEPT ![p] = "closed"]
    /\ pc' = [pc EXCEPT ![p] = "rule1"]
    /\ trace' = [trace EXCEPT ![p] = Append(@, "read!")]
    /\ UNCHANGED << serial, original, exists, file, linesep, content, wh,
                    wbuf, stdout, before, rawRead >>

\* f.read() raises (an I/O error): the with statement closes the handle.
ReadFail(p) ==
    /\ pc[p] = "read"
    /\ rh' = [rh EXCEPT ![p] = "closed"]
    /\ Raise(p, "read")
    /\ UNCHANGED << serial, original, exists, file, linesep, content, wh,
                    wbuf, stdout, before, rawRead >>

\* The end of a first block that does not close its handle.
CloseReadLeak(p) ==
    /\ pc[p] = "close_r"
    /\ Advance(p, "close_r", "rule1")
    /\ UNCHANGED << serial, original, exists, file, linesep, content, rh,
                    wh, wbuf, stdout, before, rawRead >>

\* the end of the first with block
CloseRead(p) ==
    /\ pc[p] = "close_r"
    /\ rh' = [rh EXCEPT ![p] = "closed"]
    /\ Advance(p, "close_r", "rule1")
    /\ UNCHANGED << serial, original, exists, file, linesep, content, wh,
                    wbuf, stdout, before, rawRead >>

\* content = re.sub(<title rule>, content)
Rule1(p) ==
    /\ pc[p] = "rule1"
    /\ content' = [content EXCEPT ![p] = UpdateTitle(@)]
    /\ Advance(p, "rule1", "rule2")
    /\ UNCHANGED << serial, original, exists, file, linesep, rh, wh, wbuf,
                    stdout, before, rawRead >>

\* content = re.sub(<favicon rule>, content)
Rule2(p) ==
    /\ pc[p] = "rule2"
    /\ content' = [content EXCEPT ![p] = UpdateFavicon(@)]
    /\ Advance(p, "rule2", "open_w")
    /\ UNCHANGED << serial, original, exists, file, linesep, rh, wh, wbuf,
                    stdout, before, rawRead >>

\* with open('dist/index.html', 'w') as f:  creates or truncates the file
OpenWrite(p) ==
    /\ pc[p] = "open_w"
    /\ exists' = TRUE
    /\ file' = << >>
    /\ wh' = [wh EXCEPT ![p] = "open"]
    /\ Advance(p, "open_w", "write")
    /\ UNCHANGED << serial, original, linesep, content, rh, wbuf, stdout,
                    before, rawRead >>

\* An open for writing that truncates the file before it raises.
OpenWriteFailTruncated(p) ==
    /\ pc[p] = "open_w"
    /\ exists' = TRUE
    /\ file' = << >>
    /\ Raise(p, "open_w")
    /\ UNCHANGED << serial, original, linesep, content, rh, wh, wbuf,
                    stdout, before, rawRead >>

\* open(..., 'w') raises (the file is not writable): nothing is truncated.
OpenWriteFail(p) ==
    /\ pc[p] = "open_w"
    /\ Raise(p, "open_w")
    /\ UNCHANGED << serial, original, exists, file, linesep, content, rh,
                    wh, wbuf, stdout, before, rawRead >>

\* f.write(content): the encoded text goes to the handle's buffer (a small
\* document) or through to the file (one larger than the buffer).
Write(p) ==
    /\ pc[p] = "write"
    /\ \E through \in BOOLEAN :
         LET data == Encode(content[p], linesep)
         IN  IF through
             THEN /\ file' = Overlay(file, data)
                  /\ wbuf' = wbuf
             ELSE /\ file' = file
                  /\ wbuf' = [wbuf EXCEPT ![p] = data]
    /\ Advance(p, "write", "close_w")
    /\ UNCHANGED << serial, original, exists, linesep, content, rh, wh,
                    stdout, before, rawRead >>

\* A write of data fails (the disk is full, an I/O error) after cut of its
\* bytes reached the file; the with statement closes the handle.
FailedWrite(p, data, step) ==
    /\ \E cut \in 0..Min(MaxCut, Len(data) - 1) :
         file' = Overlay(file, SubSeq(data, 1, cut))
    /\ wbuf' = [wbuf EXCEPT ![p] = << >>]
    /\ wh' = [wh EXCEPT ![p] = "closed"]
    /\ Raise(p, step)
    /\ UNCHANGED << serial, original, exists, linesep, content, rh, stdout,
                    before, rawRead >>

\* f.write(content) raises while writing through.
WriteFail(p) ==
    /\ pc[p] = "write"
    /\ Len(content[p]) > 0
    /\ FailedWrite(p, Encode(content[p], linesep), "write")

\* the end of the second with block: flush the buffer, close the handle
CloseWrite(p) ==
    /\ pc[p] = "close_w"
    /\ file' = Overlay(file, wbuf[p])
    /\ wbuf' = [wbuf EXCEPT ![p] = << >>]
    /\ wh' = [wh EXCEPT ![p] = "closed"]
    /\ Advance(p, "close_w", "print")
    /\ UNCHANGED << serial, original, exists, linesep, content, rh, stdout,
                    before, rawRead >>

\* the flush at the end of the with block raises
CloseWriteFail(p) ==
    /\ pc[p] = "close_w"
    /\ Len(wbuf[p]) > 0
    /\ FailedWrite(p, wbuf[p], "close_w")

\* print("HTML updated successfully!")
PrintSuccess(p) ==
    /\ pc[p] = "print"
    /\ stdout' = [stdout EXCEPT ![p] = Append(@, SuccessMessage)]
    /\ Advance(p, "print", "done")
    /\ UNCHANGED << serial, original, exists, file, linesep, content, rh,
                    wh, wbuf, before, rawRead >>

Next ==
    \E p \in Procs :
        \/ OpenRead(p)
        \/ OpenReadFail(p)
        \/ Read(p)
        \/ ReadFail(p)
        \/ CloseRead(p)
        \/ Rule1(p)
        \/ Rule2(p)
        \/ OpenWrite(p)
        \/ OpenWriteFail(p)
        \/ Write(p)
        \/ WriteFail(p)
        \/ CloseWrite(p)
        \/ CloseWriteFail(p)
        \/ PrintSuccess(p)

\* One run, and then a second one on what the first left.
Spec == Init /\ [][Next]_vars

\* Two runs at once against the same file: any interleaving of their steps.
SpecConc == InitConc /\ [][Next]_vars

-----------------------------------------------------------------------------
(* Properties.                                                              *)

\* Run p has ended with the success message and no later run has begun:
\* the file is as run p left it.
JustDone(p) ==
    /\ pc[p] = "done"
    /\ \A q \in Procs : q > p => pc[q] = "open_r"

\* Run p has ended, one way or the other, and no later run has begun.
JustEnded(p) ==
    /\ Terminated(p)
    /\ \A q \in Procs : q > p => pc[q] = "open_r"

Occurrences(pat, s) == MatchesFrom(pat, s, 1)

\* C1: a successful run writes back the document it read with every
\* occurrence of the empty title tag replaced by the "Die Stats" title, every
\* piece matched by the favicon rule replaced, and every other character
\* unchanged and in the same order; the scenario document becomes the
\* scenario's output.
C1_TitleRule ==
    \A p \in Procs :
        JustDone(p) =>
            /\ file = UpdateFavicon(
                          StrReplace(rawRead[p], TitlePattern,
                                     TitleReplacement))
            /\ rawRead[p] = ScenarioInput => file = ScenarioOutput

\* C2: the favicon rule rewrites a piece of the text if and only if the
\* piece is exactly the literal <link rel="icon" href="/favicon.ico" />.
C2_FaviconExact ==
    \A p \in Procs :
        pc[p] = "open_w" =>
            content[p] = StrReplace(UpdateTitle(Decode(rawRead[p])),
                                    FaviconLiteral, FaviconReplacement)

\* C3: a second successful run on what a first successful run wrote changes
\* nothing: it writes back exactly the bytes it read, patch(patch(x)) =
\* patch(x).
C3_Idempotent ==
    ( /\ pc[1] = "done"
      /\ pc[2] = "done" )
    => ( /\ rawRead[2] = Patch(rawRead[1], linesep)
         /\ file = rawRead[2] )

\* Both runs succeeded, the first one rewrote a title (so the second read
\* other bytes than the first) and the second left the file as it read it.
C3_Witness ==
    /\ pc[1] = "done"
    /\ pc[2] = "done"
    /\ Occurrences(TitlePattern, rawRead[1]) # { }
    /\ rawRead[1] # rawRead[2]
    /\ file = rawRead[2]

\* C4: when neither pattern occurs in the file, a successful run leaves the
\* file byte for byte as it was and prints the success message.
C4_NoMatchNoOp ==
    \A p \in Procs :
        ( /\ JustDone(p)
          /\ Occurrences(TitlePattern, rawRead[p]) = { }
          /\ Occurrences(FaviconPattern, rawRead[p]) = { } )
        => ( /\ file = rawRead[p]
             /\ stdout[p] = << SuccessMessage >> )

\* Run p failed opening or reading the file.
ReadFailed(p) ==
    \E i \in DOMAIN trace[p] : trace[p][i] \in { "open_r!", "read!" }

\* C5: a run that cannot open or read the file ends with a non-zero exit
\* status, never opens the path for writing, prints nothing, and leaves the
\* file (present or missing) as it was.
C5_ReadFailureUntouched ==
    \A p \in Procs :
        ReadFailed(p) =>
            /\ ExitCode(p) = 1
            /\ wh[p] = "none"
            /\ stdout[p] = << >>
            /\ JustEnded(p) =>
                   /\ exists = before[p].exists
                   /\ file = before[p].data

\* The file is missing, the run has failed at open(..., 'r') and there is
\* still no file.
C5_Witness ==
    /\ ~ exists
    /\ pc[1] = "failed"
    /\ trace[1] = << "open_r!" >>
    /\ ~ before[1].exists

\* The last step run p took.
LastStep(p) == trace[p][Len(trace[p])]

\* C6 as stated: whenever a run has ended, also after a failure of the open
\* for writing or of the write, the file holds its original content or the
\* fully patched content.
C6_AllOrNothing ==
    \A p \in Procs :
        JustEnded(p) =>
            \/ file = before[p].data
            \/ file = Patch(before[p].data, linesep)

\* C6 as amended: whenever a run has ended, the file holds its original
\* content if the read or an open failed, the fully patched content if the
\* run succeeded, and a prefix of the patched content (possibly empty) if
\* the write failed after the truncating open.
C6_OriginalPatchedOrPrefix ==
    \A p \in Procs :
        JustEnded(p) =>
            LET patched == Patch(before[p].data, linesep)
            IN  /\ pc[p] = "done" => file = patched
                /\ LastStep(p) \in { "open_r!", "read!", "open_w!" } =>
                       /\ file = before[p].data
                       /\ exists = before[p].exists
                /\ LastStep(p) \in { "write!", "close_w!" } =>
                       IsPrefix(file, patched)

\* The write failed part-way: the file holds a non-empty piece of the patched
\* content that is neither the original nor the patched document.
C6_Witness ==
    /\ pc[1] = "failed"
    /\ pc[2] = "open_r"
    /\ LastStep(1) \in { "write!", "close_w!" }
    /\ file # << >>
    /\ file # before[1].data
    /\ file # Patch(before[1].data, linesep)

\* The steps run p has taken are the first steps of the script, in its
\* order, the last of them possibly a failed one.
InOrder(p) ==
    LET t == trace[p]
    IN  /\ Len(t) <= Len(StepOrder)
        /\ \A i \in 1..Len(t) :
               \/ t[i] = StepOrder[i]
               \/ /\ i = Len(t)
                  /\ pc[p] = "failed"
                  /\ t[i] = StepOrder[i] \o "!"
        /\ pc[p] = "done" <=> t = StepOrder

\* C7: the steps of a run occur in the order open-read, read, close, rule 1,
\* rule 2 on rule 1's result, open-write (truncating), write, close, print;
\* at most one handle is open at a time and none when the run has ended; the
\* success message is printed exactly once, after the whole patched content
\* is in the file and the write handle is closed.
C7_OrderAndHandles ==
    \A p \in Procs :
        /\ InOrder(p)
        /\ ~ (rh[p] = "open" /\ wh[p] = "open")
        /\ Terminated(p) => rh[p] # "open" /\ wh[p] # "open"
        /\ pc[p] = "rule2" => content[p] = UpdateTitle(Decode(rawRead[p]))
        /\ pc[p] = "open_w" =>
               content[p] = UpdateFavicon(UpdateTitle(Decode(rawRead[p])))
        /\ pc[p] = "write" => file = << >>
        /\ pc[p] = "done" => stdout[p] = << SuccessMessage >>
        /\ stdout[p] # << >> =>
               /\ stdout[p] = << SuccessMessage >>
               /\ trace[p] = StepOrder
               /\ rh[p] = "closed"
               /\ wh[p] = "closed"
               /\ wbuf[p] = << >>
               /\ JustDone(p) => file = Encode(content[p], linesep)

\* A run has gone through all nine steps and printed the message.
C7_Witness ==
    /\ pc[1] = "done"
    /\ trace[1] = StepOrder
    /\ stdout[1] = << SuccessMessage >>
    /\ rawRead[1] # << >>

\* C8: the two rules are independent: rule 2 after rule 1 gives what rule 1
\* after rule 2 gives, and neither rule creates or destroys a match of the
\* other.
C8_RulesIndependent ==
    \A p \in Procs :
        pc[p] = "open_w" =>
            LET t == Decode(rawRead[p])
            IN  /\ content[p] = UpdateTitle(UpdateFavicon(t))
                /\ Cardinality(Occurrences(FaviconPattern, UpdateTitle(t)))
                     = Cardinality(Occurrences(FaviconPattern, t))
                /\ Cardinality(Occurrences(TitlePattern, UpdateFavicon(t)))
                     = Cardinality(Occurrences(TitlePattern, t))

\* Both rules have matched in the document of a run.
C8_Witness ==
    /\ pc[1] = "open_w"
    /\ Occurrences(TitlePattern, Decode(rawRead[1])) # { }
    /\ Occurrences(FaviconPattern, Decode(rawRead[1])) # { }

\* C9: two runs at once are not guarded against each other.  Their final
\* file differs from the patched original only when a run read the file
\* while the other had truncated it and not yet written it back (it read
\* neither the original nor the patched document); the witness is such an
\* interleaving.
C9_OnlyTornReads ==
    ( /\ pc[1] = "done"
      /\ pc[2] = "done"
      /\ file # Patch(original, linesep) )
    => \E p \in Procs :
           rawRead[p] \notin { original, Patch(original, linesep) }

\* Both runs printed the success message, one of them read the truncated
\* (empty) file, and the file is not the patched original.
C9_Witness ==
    /\ pc[1] = "done"
    /\ pc[2] = "done"
    /\ stdout[1] = << SuccessMessage >>
    /\ stdout[2] = << SuccessMessage >>
    /\ original # << >>
    /\ \E p \in Procs : rawRead[p] = << >>
    /\ file # Patch(original, linesep)

\* C10: after a successful run the file holds no text that matches pattern 1
\* and none that matches pattern 2, neither in its bytes nor in the text the
\* next run reads from it.
C10_NoMatchLeft ==
    \A p \in Procs :
        JustDone(p) =>
            /\ Occurrences(TitlePattern, file) = { }
            /\ Occurrences(FaviconPattern, file) = { }
            /\ Occurrences(TitlePattern, Decode(file)) = { }
            /\ Occurrences(FaviconPattern, Decode(file)) = { }

\* A successful run on a document with several occurrences of a pattern.
C10_Witness ==
    /\ JustDone(1)
    /\ \/ Cardinality(Occurrences(TitlePattern, rawRead[1])) >= 2
       \/ Cardinality(Occurrences(FaviconPattern, rawRead[1])) >= 2

=============================================================================
